---- MODULE Spec2Model ----
(***************************************************************************)
(* Delay / probability discounting task (task.js, jsPsych 7 timeline).     *)
(*                                                                         *)
(* The model follows one session: prepareSettings builds the settings and  *)
(* the condition parameters, prepareTrialSequence the shuffled sequence,   *)
(* the titration loop runs skipIfIpDetermined, delaiedDiscountingTrial and *)
(* distractorTrial for every sequence entry, then come payoffTrial and     *)
(* saveSummary.  Amounts are in yen as in the source; every amount the     *)
(* program handles is a multiple of the step.                              *)
(*                                                                         *)
(* Two specifications are given.  Spec is the session.  SpecTitration      *)
(* applies getRewardValue and updateParameters to the conditions over and  *)
(* over, for any number of trials, with a wider standard amount and with   *)
(* subjects that may follow a fixed policy.                                *)
(***************************************************************************)
EXTENDS Integers, Sequences, FiniteSets

(* ---- sizes of the checked configuration ---------------------------------- *)
(* getUserDefinedSettings is the place where the task is configured.  The    *)
(* shipped values are standard = 1000 (20 steps of 50), distractorStart =    *)
(* 70, maximumTrialCount = 30, five delays and five probabilities.  The      *)
(* checked configuration keeps the step, the first delay and the first       *)
(* probability, and shortens the counts: StandardSteps is the standard of    *)
(* the session in steps, TitrationSteps the standard of SpecTitration.       *)
StandardSteps == 2
TitrationSteps == 4
DistractorStart == 5
MaximumTrialCount == 3

(* ---- getUserDefinedSettings ---------------------------------------------- *)
Step == 50
TemporalDelays == <<0>>
Probabilities == <<100>>

(* ---- prepareSettings ------------------------------------------------------ *)
Undefined == -1
TemporalNames == <<"t1", "t2", "t3", "t4", "t5">>
ProbabilityNames == <<"p1", "p2", "p3", "p4", "p5">>

TemporalParameters(idx, standard) ==
  [name |-> TemporalNames[idx], type |-> "temporal_delay",
   level |-> TemporalDelays[idx], count |-> 0,
   tmin |-> standard, tmax |-> standard, bmin |-> 0, bmax |-> 0,
   ip |-> Undefined]

ProbabilityParameters(idx, standard) ==
  [name |-> ProbabilityNames[idx], type |-> "probability_delay",
   level |-> Probabilities[idx], count |-> 0,
   tmin |-> standard, tmax |-> standard, bmin |-> 0, bmax |-> 0,
   ip |-> Undefined]

DistractorParameters == [name |-> "d0", type |-> "distractor", count |-> 0]

ParameterNames ==
  {TemporalNames[i] : i \in DOMAIN TemporalDelays}
    \cup {ProbabilityNames[i] : i \in DOMAIN Probabilities} \cup {"d0"}

PrepareSettingsParameters(standard) ==
  [n \in ParameterNames |->
     IF n = "d0" THEN DistractorParameters
     ELSE IF \E i \in DOMAIN TemporalDelays : TemporalNames[i] = n
          THEN TemporalParameters(CHOOSE i \in DOMAIN TemporalDelays : TemporalNames[i] = n,
                                  standard)
          ELSE ProbabilityParameters(CHOOSE i \in DOMAIN Probabilities : ProbabilityNames[i] = n,
                                     standard)]

EmptyStimulus == <<"", 0, 0, 0>>

PrepareSettingsVariables ==
  [count |-> 0, reword |-> 0, stimulus |-> EmptyStimulus, number_of_ips |-> 0]

PrepareSettings(standard) ==
  [distractorStart |-> DistractorStart, standard |-> standard, step |-> Step,
   maximumTrialCount |-> MaximumTrialCount, threshold |-> Step]

VARIABLES settings, parameters, variables, trialSequence, index, pc, response,
          data, summary, policy

vars == <<settings, parameters, variables, trialSequence, index, pc, response,
          data, summary, policy>>

(* ---- prepareTrialSequence ------------------------------------------------- *)
TrialNamesUnfiltered(p) == DOMAIN p

TrialNames(p) == {key \in DOMAIN p : key # "d0"}

Occurrences(s, x) == Cardinality({i \in DOMAIN s : s[i] = x})

(* jsPsych.randomization.repeat: every element maximumTrialCount times.      *)
IsRepeat(s, names, n) == \A x \in names : Occurrences(s, x) = n

(* jsPsych.randomization.shuffleNoRepeats: a shuffle without equal           *)
(* neighbours.                                                               *)
NoRepeats(s) == \A i \in 1..(Len(s) - 1) : s[i] # s[i + 1]

PrepareTrialSequence(p, n) ==
  LET names == TrialNames(p)
  IN {s \in [1..(n * Cardinality(names)) -> names] :
        IsRepeat(s, names, n) /\ NoRepeats(s)}

(* ---- getRewardValue ------------------------------------------------------- *)
(* Math.round(Math.random() * (tmax - bmax) + bmax) * step with tmax, bmax    *)
(* taken in steps: Math.random() ranges over [0, 1), so the rounded value     *)
(* ranges over every integer between the two ends.                            *)
GetRewardValue(p, step) ==
  LET tmax == p.tmax \div step
      bmax == p.bmax \div step
      lo == IF bmax <= tmax THEN bmax ELSE tmax
      hi == IF bmax <= tmax THEN tmax ELSE bmax
  IN {k * step : k \in lo..hi}

(* ---- getStimulousString --------------------------------------------------- *)
(* The text is the template of the condition's type filled with var, std      *)
(* and t or p: it is modelled by the tuple of those four parts.               *)
GetStimulousString(p, reword, trialName) ==
  IF p[trialName].type = "temporal_delay"
  THEN <<"temporalDelay", reword, settings.standard, p[trialName].level>>
  ELSE IF p[trialName].type = "probability_delay"
  THEN <<"probabilityDelay", reword, settings.standard, p[trialName].level>>
  ELSE <<"undefined", 0, 0, 0>>

(* ---- updateParameters ----------------------------------------------------- *)
UpdateCaseA(reword, p) ==
  IF reword < p.bmin THEN [p EXCEPT !.bmax = 0, !.bmin = reword]
  ELSE IF reword <= p.tmin THEN [p EXCEPT !.tmax = p.tmin, !.tmin = reword]
  ELSE [p EXCEPT !.tmax = reword]

UpdateCaseBSecondTestFirst(reword, p, standard) ==
  IF p.bmin < reword THEN [p EXCEPT !.bmax = p.bmin, !.bmin = reword]
  ELSE IF p.tmin < reword THEN [p EXCEPT !.tmax = standard, !.tmin = reword]
  ELSE [p EXCEPT !.bmax = reword]

UpdateCaseBInclusive(reword, p, standard) ==
  IF p.tmin <= reword THEN [p EXCEPT !.tmax = standard, !.tmin = reword]
  ELSE IF p.bmin < reword THEN [p EXCEPT !.bmax = p.bmin, !.bmin = reword]
  ELSE [p EXCEPT !.bmax = reword]

UpdateCaseBKeepsBmax(reword, p, standard) ==
  IF p.tmin < reword THEN [p EXCEPT !.tmax = standard, !.tmin = reword]
  ELSE IF p.bmin < reword THEN [p EXCEPT !.bmin = reword]
  ELSE [p EXCEPT !.bmax = reword]

UpdateCaseB(reword, p, standard) ==
  IF p.tmin < reword THEN [p EXCEPT !.tmax = standard, !.tmin = reword]
  ELSE IF p.bmin < reword THEN [p EXCEPT !.bmax = p.bmin, !.bmin = reword]
  ELSE [p EXCEPT !.bmax = reword]

DetermineIpMidpoint(reword, p, threshold) ==
  IF p.tmax - p.bmax <= threshold
  THEN [p EXCEPT !.ip = (p.tmax + p.bmax) \div 2]
  ELSE p

DetermineIpStrict(reword, p, threshold) ==
  IF p.tmax - p.bmax < threshold THEN [p EXCEPT !.ip = reword] ELSE p

DetermineIp(reword, p, threshold) ==
  IF p.tmax - p.bmax <= threshold THEN [p EXCEPT !.ip = reword] ELSE p

UpdateParametersUnordered(label, reword, p, standard, threshold) ==
  LET q == IF label = "A" THEN UpdateCaseA(reword, p)
           ELSE IF p.tmin < reword THEN [p EXCEPT !.bmax = standard, !.tmin = reword]
           ELSE IF p.bmin < reword THEN [p EXCEPT !.bmax = p.bmin, !.bmin = reword]
           ELSE [p EXCEPT !.bmax = reword]
  IN IF label \notin {"A", "B"} THEN p
     ELSE IF q.tmax - q.bmax = threshold THEN [q EXCEPT !.ip = reword] ELSE q

UpdateParameters(label, reword, p, standard, threshold) ==
  IF label = "A" THEN DetermineIp(reword, UpdateCaseA(reword, p), threshold)
  ELSE IF label = "B"
  THEN DetermineIp(reword, UpdateCaseB(reword, p, standard), threshold)
  ELSE p

(* ---- the subject ---------------------------------------------------------- *)
(* data.response is the index of the pressed button (0 or 1), or null when    *)
(* the trial ends without a button press.                                     *)
Null == -1
NoResponse == -2
Responses == {0, 1, Null}

ResponseLabelTwoWay(r) == IF r = 0 THEN "A" ELSE "B"

ResponseLabel(r) == IF r = 0 THEN "A" ELSE IF r = 1 THEN "B" ELSE "null"

(* A subject without a policy answers anything; a subject with the policy     *)
(* value v takes A (the variable amount) above v and B (the standard) below.  *)
Unconstrained == -1

SubjectResponses(trialName, reword) ==
  IF policy[trialName] = Unconstrained THEN Responses
  ELSE {r \in {0, 1} : /\ reword > policy[trialName] => r = 0
                       /\ reword < policy[trialName] => r = 1}

(* ---- saveData ------------------------------------------------------------- *)
(* A record of jsPsych's data collection, with the fields of the trial's      *)
(* data declaration (name, tiral_name) and the two fields saveData copies     *)
(* from settings.variables.  The collection is read in one place only,        *)
(* handleOnPayoffStart, through filter() and a uniform draw, which depend on  *)
(* neither the order nor the multiplicity of the records: it is kept as the   *)
(* set of its records.  The snapshot trial_parameters that saveData adds to   *)
(* a titration record is never read back and is not kept.                     *)
SaveData(name, trialName) ==
  [name |-> name, tiral_name |-> trialName,
   reword |-> variables.reword, choices |-> variables.stimulus]

(* ---- timeline ------------------------------------------------------------- *)
NoSummary == [total_trial_count |-> Undefined]

CurrentTrialName == trialSequence[index]

InitSettings(standard) ==
  /\ settings = PrepareSettings(standard)
  /\ parameters = PrepareSettingsParameters(standard)
  /\ variables = PrepareSettingsVariables
  /\ trialSequence \in PrepareTrialSequence(PrepareSettingsParameters(standard),
                                            MaximumTrialCount)
  /\ index = 1
  /\ pc = "sequence"
  /\ response = NoResponse
  /\ data = {}
  /\ summary = NoSummary

Init ==
  /\ InitSettings(StandardSteps * Step)
  /\ policy = [n \in TrialNames(PrepareSettingsParameters(StandardSteps * Step))
                 |-> Unconstrained]

(* conditional_function of skipIfIpDetermined *)
IpUndeterminedAlways(trialName) == TRUE

IpUndetermined(trialName) == parameters[trialName].ip = Undefined

(* conditional_function of distractorTrial *)
DistractorConditionStrict == settings.distractorStart < variables.count

DistractorCondition == settings.distractorStart <= variables.count

SkipIfIpDeterminedStays ==
  /\ pc = "sequence"
  /\ index <= Len(trialSequence)
  /\ ~IpUndetermined(CurrentTrialName)
  /\ index' = index
  /\ UNCHANGED <<settings, parameters, variables, trialSequence, pc, response,
                 data, summary, policy>>

SkipIfIpDetermined ==
  /\ pc = "sequence"
  /\ index <= Len(trialSequence)
  /\ ~IpUndetermined(CurrentTrialName)
  /\ index' = index + 1
  /\ UNCHANGED <<settings, parameters, variables, trialSequence, pc, response,
                 data, summary, policy>>

HandleOnDelaiedDiscountingStartStaleReword ==
  /\ pc = "sequence"
  /\ index <= Len(trialSequence)
  /\ IpUndetermined(CurrentTrialName)
  /\ \E reword \in GetRewardValue(parameters[CurrentTrialName], settings.step) :
       /\ parameters' = [parameters EXCEPT ![CurrentTrialName].count = @ + 1]
       /\ variables' = [variables EXCEPT
                          !.count = @ + 1,
                          !.stimulus = GetStimulousString(parameters, reword, CurrentTrialName)]
  /\ pc' = "delaied_discounting"
  /\ UNCHANGED <<settings, trialSequence, index, response, data, summary, policy>>

HandleOnDelaiedDiscountingStart ==
  /\ pc = "sequence"
  /\ index <= Len(trialSequence)
  /\ IpUndetermined(CurrentTrialName)
  /\ \E reword \in GetRewardValue(parameters[CurrentTrialName], settings.step) :
       /\ parameters' = [parameters EXCEPT ![CurrentTrialName].count = @ + 1]
       /\ variables' = [variables EXCEPT
                          !.count = @ + 1,
                          !.reword = reword,
                          !.stimulus = GetStimulousString(parameters, reword, CurrentTrialName)]
  /\ pc' = "delaied_discounting"
  /\ UNCHANGED <<settings, trialSequence, index, response, data, summary, policy>>

HandleOnDelaiedDiscountingFinishShared ==
  /\ pc = "delaied_discounting"
  /\ \E r \in SubjectResponses(CurrentTrialName, variables.reword) :
       LET updated == UpdateParameters(ResponseLabel(r), variables.reword,
                                       parameters[CurrentTrialName],
                                       settings.standard, settings.threshold)
       IN /\ response' = r
          /\ parameters' = [n \in DOMAIN parameters |->
                              IF parameters[n].type = parameters[CurrentTrialName].type
                              THEN [updated EXCEPT !.name = n,
                                                   !.count = parameters[n].count]
                              ELSE IF n = "d0" THEN parameters[n]
                              ELSE [parameters[n] EXCEPT !.tmax = updated.tmax]]
          /\ variables' = [variables EXCEPT
                             !.number_of_ips = IF updated.ip # Undefined THEN @ + 1 ELSE @]
  /\ data' = data \cup {SaveData("delaied_discounting", CurrentTrialName)}
  /\ pc' = "after_trial"
  /\ UNCHANGED <<settings, trialSequence, index, summary, policy>>

HandleOnDelaiedDiscountingFinishCountingAll ==
  /\ pc = "delaied_discounting"
  /\ \E r \in SubjectResponses(CurrentTrialName, variables.reword) :
       LET updated == UpdateParameters(ResponseLabel(r), variables.reword,
                                       parameters[CurrentTrialName],
                                       settings.standard, settings.threshold)
       IN /\ response' = r
          /\ parameters' = [parameters EXCEPT ![CurrentTrialName] = updated]
          /\ variables' = [variables EXCEPT !.number_of_ips = @ + 1]
  /\ data' = data \cup {SaveData("delaied_discounting", CurrentTrialName)}
  /\ pc' = "after_trial"
  /\ UNCHANGED <<settings, trialSequence, index, summary, policy>>

HandleOnDelaiedDiscountingFinish ==
  /\ pc = "delaied_discounting"
  /\ \E r \in SubjectResponses(CurrentTrialName, variables.reword) :
       LET updated == UpdateParameters(ResponseLabel(r), variables.reword,
                                       parameters[CurrentTrialName],
                                       settings.standard, settings.threshold)
       IN /\ response' = r
          /\ parameters' = [parameters EXCEPT ![CurrentTrialName] = updated]
          /\ variables' = [variables EXCEPT
                             !.number_of_ips = IF updated.ip # Undefined THEN @ + 1 ELSE @]
  /\ data' = data \cup {SaveData("delaied_discounting", CurrentTrialName)}
  /\ pc' = "after_trial"
  /\ UNCHANGED <<settings, trialSequence, index, summary, policy>>

SkipDistractor ==
  /\ pc = "after_trial"
  /\ ~DistractorCondition
  /\ index' = index + 1
  /\ pc' = "sequence"
  /\ UNCHANGED <<settings, parameters, variables, trialSequence, response, data,
                 summary, policy>>

OppositeTypeSame(type) == type

OppositeType(type) ==
  IF type = "temporal_delay" THEN "probability_delay"
  ELSE IF type = "probability_delay" THEN "temporal_delay"
  ELSE type

HandleOnDistractorStartLastTrial ==
  /\ pc = "after_trial"
  /\ DistractorCondition
  /\ LET trialType == OppositeType(parameters[CurrentTrialName].type)
     IN \E trialName \in {n \in DOMAIN parameters : parameters[n].type = trialType} :
          \E reword \in GetRewardValue([tmax |-> settings.standard, bmax |-> 0],
                                       settings.step) :
            /\ parameters' = [parameters EXCEPT ![CurrentTrialName].count = @ + 1]
            /\ variables' = [variables EXCEPT
                               !.reword = reword,
                               !.stimulus = GetStimulousString(parameters, reword, trialName)]
  /\ pc' = "distractor"
  /\ UNCHANGED <<settings, trialSequence, index, response, data, summary, policy>>

HandleOnDistractorStartCounting ==
  /\ pc = "after_trial"
  /\ DistractorCondition
  /\ LET trialType == OppositeType(parameters[CurrentTrialName].type)
     IN \E trialName \in {n \in DOMAIN parameters : parameters[n].type = trialType} :
          \E reword \in GetRewardValue([tmax |-> settings.standard, bmax |-> 0],
                                       settings.step) :
            /\ parameters' = [parameters EXCEPT !["d0"].count = @ + 1]
            /\ variables' = [variables EXCEPT
                               !.count = @ + 1,
                               !.reword = reword,
                               !.stimulus = GetStimulousString(parameters, reword, trialName)]
  /\ pc' = "distractor"
  /\ UNCHANGED <<settings, trialSequence, index, response, data, summary, policy>>

HandleOnDistractorStart ==
  /\ pc = "after_trial"
  /\ DistractorCondition
  /\ LET trialType == OppositeType(parameters[CurrentTrialName].type)
     IN \E trialName \in {n \in DOMAIN parameters : parameters[n].type = trialType} :
          \E reword \in GetRewardValue([tmax |-> settings.standard, bmax |-> 0],
                                       settings.step) :
            /\ parameters' = [parameters EXCEPT !["d0"].count = @ + 1]
            /\ variables' = [variables EXCEPT
                               !.reword = reword,
                               !.stimulus = GetStimulousString(parameters, reword, trialName)]
  /\ pc' = "distractor"
  /\ UNCHANGED <<settings, trialSequence, index, response, data, summary, policy>>

(* on_finish of the distractor trial: saveData(data, settings) and nothing    *)
(* else; the subject's answer is not read.                                    *)
HandleOnDistractorFinishUpdating ==
  /\ pc = "distractor"
  /\ \E r \in Responses :
       parameters' = [parameters EXCEPT ![CurrentTrialName] =
                        UpdateParameters(ResponseLabel(r), variables.reword,
                                         parameters[CurrentTrialName],
                                         settings.standard, settings.threshold)]
  /\ data' = data \cup {SaveData("distractor", "d0")}
  /\ index' = index + 1
  /\ pc' = "sequence"
  /\ UNCHANGED <<settings, variables, trialSequence, response, summary, policy>>

HandleOnDistractorFinish ==
  /\ pc = "distractor"
  /\ data' = data \cup {SaveData("distractor", "d0")}
  /\ index' = index + 1
  /\ pc' = "sequence"
  /\ UNCHANGED <<settings, parameters, variables, trialSequence, response,
                 summary, policy>>

(* jsPsych.data.get().values().filter(name === 'delaied_discounting') *)
TrialResultsUnfiltered(d) == d

TrialResults(d) == {result \in d : result.name = "delaied_discounting"}

HandleOnPayoffStartEarly ==
  /\ pc = "sequence"
  /\ \E selectedResult \in TrialResults(data) :
       variables' = [variables EXCEPT !.reword = selectedResult.reword,
                                      !.stimulus = selectedResult.choices]
  /\ pc' = "payoff"
  /\ UNCHANGED <<settings, parameters, trialSequence, index, response, data,
                 summary, policy>>

HandleOnPayoffStart ==
  /\ pc = "sequence"
  /\ index > Len(trialSequence)
  /\ \E selectedResult \in TrialResults(data) :
       variables' = [variables EXCEPT !.reword = selectedResult.reword,
                                      !.stimulus = selectedResult.choices]
  /\ pc' = "payoff"
  /\ UNCHANGED <<settings, parameters, trialSequence, index, response, data,
                 summary, policy>>

HandleOnPayoffFinish ==
  /\ pc = "payoff"
  /\ data' = data \cup {SaveData("payoff", "payoff")}
  /\ pc' = "save_summary"
  /\ UNCHANGED <<settings, parameters, variables, trialSequence, index, response,
                 summary, policy>>

SaveSummary ==
  /\ pc = "save_summary"
  /\ summary' = [total_trial_count |-> variables.count,
                 number_of_ips |-> variables.number_of_ips,
                 trial_parameters |-> parameters]
  /\ pc' = "done"
  /\ UNCHANGED <<settings, parameters, variables, trialSequence, index, response,
                 data, policy>>

Next ==
  \/ SkipIfIpDetermined
  \/ HandleOnDelaiedDiscountingStart
  \/ HandleOnDelaiedDiscountingFinish
  \/ SkipDistractor
  \/ HandleOnDistractorStart
  \/ HandleOnDistractorFinish
  \/ HandleOnPayoffStart
  \/ HandleOnPayoffFinish
  \/ SaveSummary

Spec == Init /\ [][Next]_vars

(* ---- titration alone ------------------------------------------------------ *)
(* Every condition starts from prepareSettings with the wider standard; each  *)
(* step offers an unresolved condition a reward of getRewardValue and applies *)
(* the subject's answer with updateParameters.  The subject either answers    *)
(* freely or follows a policy value.                                          *)
PolicyValues == {k * Step : k \in 0..TitrationSteps}

InitTitration ==
  /\ InitSettings(TitrationSteps * Step)
  /\ \E v \in PolicyValues \cup {Unconstrained} :
       policy = [n \in TrialNames(PrepareSettingsParameters(TitrationSteps * Step)) |-> v]

ApplyChoice ==
  /\ \E trialName \in TrialNames(parameters) :
       /\ IpUndetermined(trialName)
       /\ \E reword \in GetRewardValue(parameters[trialName], settings.step) :
            \E r \in SubjectResponses(trialName, reword) :
              /\ response' = r
              /\ variables' = [variables EXCEPT !.reword = reword]
              /\ parameters' = [parameters EXCEPT ![trialName] =
                                  UpdateParameters(ResponseLabel(r), reword,
                                                   parameters[trialName],
                                                   settings.standard, settings.threshold)]
  /\ UNCHANGED <<settings, trialSequence, index, pc, data, summary, policy>>

NextTitration == ApplyChoice

SpecTitration == InitTitration /\ [][NextTitration]_vars

(* ---- the session with a runner that keeps going ---------------------------- *)
(* jsPsych calls the next callback of the timeline as soon as the previous    *)
(* one returns, and every presented trial ends with a response (or with none  *)
(* when the trial times out): a step that can be taken is eventually taken.   *)
SpecFair == Init /\ [][Next]_vars /\ WF_vars(Next)

(* ---- the shipped amounts --------------------------------------------------- *)
(* The titration of SpecTitration with the shipped standard of 1000 and a      *)
(* subject who takes the standard (B) at every offer below it.                 *)
ShippedStandard == 1000

InitShipped ==
  /\ InitSettings(ShippedStandard)
  /\ policy = [n \in TrialNames(PrepareSettingsParameters(ShippedStandard))
                 |-> ShippedStandard]

SpecShipped == InitShipped /\ [][NextTitration]_vars

(* ======================= properties ======================================= *)
Bracket(n) ==
  <<parameters[n].tmin, parameters[n].tmax, parameters[n].bmin, parameters[n].bmax,
    parameters[n].ip>>

Width(n) == parameters[n].tmax - parameters[n].bmax

Titrated == ParameterNames \ {"d0"}

(* C1: for every condition, after any sequence of updateParameters calls      *)
(* from the initial bracket, with offers drawn from [bmax, tmax] and answers  *)
(* A or B, bmax <= bmin <= tmin <= tmax.                                      *)
C1_BracketOrdering ==
  \A n \in Titrated :
    /\ parameters[n].bmax <= parameters[n].bmin
    /\ parameters[n].bmin <= parameters[n].tmin
    /\ parameters[n].tmin <= parameters[n].tmax

(* Both sides of a bracket have moved and the condition is still open.        *)
C1_Witness ==
  \E n \in Titrated :
    /\ parameters[n].bmax > 0
    /\ parameters[n].tmax < settings.standard
    /\ parameters[n].bmin < parameters[n].tmin
    /\ parameters[n].ip = Undefined

(* C2: a condition has an indifference point exactly when its tmax - bmax is  *)
(* at most the threshold, and the indifference point a call sets is the       *)
(* reward offered in that call.                                               *)
C2_IpIffConverged ==
  /\ [](\A n \in Titrated :
          (parameters[n].ip # Undefined) <=> (Width(n) <= settings.threshold))
  /\ [][\A n \in Titrated :
          (parameters[n].ip = Undefined /\ parameters'[n].ip # Undefined)
            => parameters'[n].ip = variables'.reword]_vars

(* A condition resolved with a bracket exactly one threshold wide.            *)
C2_Witness ==
  \E n \in Titrated :
    /\ parameters[n].ip # Undefined
    /\ Width(n) = settings.threshold
    /\ parameters[n].ip = variables.reword

(* C7: under a fixed subject policy, no updateParameters call widens          *)
(* tmax - bmax of any condition.                                              *)
C7_WidthNonIncreasing ==
  [][\A n \in Titrated :
       policy[n] # Unconstrained
         => parameters'[n].tmax - parameters'[n].bmax <= Width(n)]_vars

(* A subject with a policy has narrowed a bracket from both sides.            *)
C7_Witness ==
  \E n \in Titrated :
    /\ policy[n] # Unconstrained
    /\ parameters[n].bmax > 0
    /\ parameters[n].tmax < settings.standard

(* C3: once a condition's indifference point is set no trial is started for   *)
(* it again; a sequence entry that references it is skipped, and the skip     *)
(* changes no counter, no bracket, no indifference point and no record.       *)
C3_ResolvedIsSkipped ==
  [][/\ (pc = "sequence" /\ index <= Len(trialSequence)
           /\ parameters[trialSequence[index]].ip # Undefined)
          => /\ parameters' = parameters
             /\ variables' = variables
             /\ data' = data
             /\ pc' = "sequence"
             /\ index' = index + 1
     /\ \A n \in Titrated :
          parameters'[n].count # parameters[n].count => parameters[n].ip = Undefined
    ]_vars

(* Some entry of a resolved condition has been passed over: the condition ran *)
(* fewer trials than it has entries behind the current position.              *)
C3_Witness ==
  /\ pc = "sequence"
  /\ index > 1
  /\ \E n \in Titrated :
       /\ parameters[n].ip # Undefined
       /\ parameters[n].count < Cardinality({i \in 1..(index - 1) : trialSequence[i] = n})

C5_FillerKeepsBrackets ==
  [][((pc = "after_trial" /\ pc' = "distractor") \/ pc = "distractor")
       => /\ \A n \in Titrated : Bracket(n)' = Bracket(n)
          /\ variables'.number_of_ips = variables.number_of_ips
    ]_vars

(* A filler trial has finished while the condition it followed is still open  *)
(* with a bracket that has moved.                                             *)
C5_Witness ==
  /\ pc = "sequence"
  /\ index > 1
  /\ parameters["d0"].count > 0
  /\ \E d \in data : d.name = "distractor"
  /\ parameters[trialSequence[index - 1]].ip = Undefined
  /\ parameters[trialSequence[index - 1]].bmin > 0

(* C6: what the payoff trial presents, and logs, is the (reword, choices)     *)
(* pair of a logged titration trial.                                          *)
C6_PayoffIsLoggedTitration ==
  /\ pc \in {"payoff", "save_summary", "done"}
       => \E t \in data : /\ t.name = "delaied_discounting"
                          /\ t.reword = variables.reword
                          /\ t.choices = variables.stimulus
  /\ \A r \in data :
       r.name = "payoff"
         => \E t \in data : /\ t.name = "delaied_discounting"
                            /\ t.reword = r.reword
                            /\ t.choices = r.choices

(* The payoff trial is on screen in a session whose last trial was a filler   *)
(* trial, and that session logged a filler pair that no titration trial had.  *)
C6_Witness ==
  /\ pc = "payoff"
  /\ variables.count >= settings.distractorStart
  /\ parameters[trialSequence[Len(trialSequence)]].count = settings.maximumTrialCount
  /\ \E d \in data :
       /\ d.name = "distractor"
       /\ \A t \in data :
            t.name = "delaied_discounting" => (t.reword # d.reword \/ t.choices # d.choices)

(* C8: a titration trial that finishes with a response other than the two     *)
(* buttons changes no bracket, no indifference point and not number_of_ips.   *)
C8_InvalidResponseNoMutation ==
  [][(pc = "delaied_discounting" /\ pc' = "after_trial" /\ response' \notin {0, 1})
       => /\ \A n \in Titrated : Bracket(n)' = Bracket(n)
          /\ variables'.number_of_ips = variables.number_of_ips
    ]_vars

(* An invalid response has just been handled on a bracket that had moved.     *)
C8_Witness ==
  /\ pc = "after_trial"
  /\ response = Null
  /\ parameters[trialSequence[index]].bmin > 0

(* C9: the count of titration trials never exceeds maximumTrialCount times    *)
(* the number of conditions, and no condition runs more than                  *)
(* maximumTrialCount trials.                                                  *)
C9_TrialCountBounded ==
  /\ variables.count <= settings.maximumTrialCount * Cardinality(Titrated)
  /\ \A n \in Titrated : parameters[n].count <= settings.maximumTrialCount

(* Every entry of the sequence has been run, after filler trials.             *)
C9_Witness ==
  /\ variables.count = settings.maximumTrialCount * Cardinality(Titrated)
  /\ parameters["d0"].count > 0
  /\ \A n \in Titrated : parameters[n].count = settings.maximumTrialCount

C11_NextOfferFromBmin ==
  [][\A n \in Titrated :
       (/\ Bracket(n) = <<1000, 1000, 550, 0, Undefined>>
        /\ Bracket(n)' # Bracket(n))
         => variables'.reword >= 550
    ]_vars

(* C11 as amended: the first step gives bmax = 0, bmin = 550; the next offer  *)
(* is a multiple of 50 in [bmax, tmax] = [0, 1000]; the standard taken at a   *)
(* next offer of 800 gives bmax = 550, bmin = 800.                            *)
C11_ScenarioFromBmax ==
  [][\A n \in Titrated :
       /\ (/\ Bracket(n) = <<1000, 1000, 0, 0, Undefined>>
           /\ Bracket(n)' # Bracket(n)
           /\ variables'.reword = 550 /\ response' = 1)
            => Bracket(n)' = <<1000, 1000, 550, 0, Undefined>>
       /\ (/\ Bracket(n) = <<1000, 1000, 550, 0, Undefined>>
           /\ Bracket(n)' # Bracket(n))
            => /\ variables'.reword \in {k * 50 : k \in 0..20}
               /\ (variables'.reword = 800 /\ response' = 1)
                    => Bracket(n)' = <<1000, 1000, 800, 550, Undefined>>
    ]_vars

(* The scenario has run to its end on some condition.                         *)
C11_Witness ==
  /\ settings.standard = 1000
  /\ variables.reword = 800
  /\ response = 1
  /\ \E n \in Titrated :
       /\ Bracket(n) = <<1000, 1000, 800, 550, Undefined>>
       /\ \A m \in Titrated \ {n} : Bracket(m) = <<1000, 1000, 0, 0, Undefined>>

(* C12: the phases run in strict order. The payoff starts only from the       *)
(* sequence once every entry has been processed (run or skipped); from the    *)
(* payoff the only step is to the summary, from the summary the only step is  *)
(* to the end, and nothing runs after the end, so there is exactly one payoff *)
(* and no titration or filler trial after it; the summary is written once,    *)
(* after the payoff.                                                          *)
FinalPhases == {"payoff", "save_summary", "done"}

C12_PhaseOrder ==
  [][/\ (pc' = "payoff" /\ pc # "payoff")
          => (pc = "sequence" /\ index > Len(trialSequence))
     /\ pc = "payoff" => pc' = "save_summary"
     /\ pc = "save_summary" => pc' = "done"
     /\ pc # "done"
     /\ pc \in FinalPhases
          => (/\ index' = index /\ parameters' = parameters
              /\ variables'.count = variables.count
              /\ TrialResults(data') = TrialResults(data))
     /\ summary' # summary => (pc = "save_summary" /\ summary = NoSummary)
    ]_vars

(* The session has ended: payoff logged, summary written.                     *)
C12_Witness ==
  /\ pc = "done"
  /\ index = Len(trialSequence) + 1
  /\ summary # NoSummary
  /\ \E result \in data : result.name = "payoff"
  /\ \E result \in data : result.name = "distractor"

(* C13: resolvedCount (number_of_ips) is the number of conditions whose       *)
(* indifference point is set, and it is the number the summary reports.       *)
ResolvedConditions == {n \in Titrated : parameters[n].ip # Undefined}

C13_ResolvedCount ==
  /\ variables.number_of_ips = Cardinality(ResolvedConditions)
  /\ summary # NoSummary
       => summary.number_of_ips = Cardinality(ResolvedConditions)

(* A summary that reports one resolved and one unresolved condition.          *)
C13_Witness ==
  /\ pc = "done"
  /\ summary.number_of_ips = 1
  /\ Cardinality(ResolvedConditions) = 1
  /\ \E n \in Titrated : parameters[n].ip = Undefined /\ parameters[n].count > 0

(* C14: DegenerateRange never occurs: a condition for which the sampler is    *)
(* invoked (its ip is not determined) has bmax <= tmax, so that the sampler   *)
(* draws from the multiples of step in [bmax, tmax].                          *)
C14_NoDegenerateRange ==
  \A n \in Titrated :
    IpUndetermined(n)
      => /\ parameters[n].bmax <= parameters[n].tmax
         /\ GetRewardValue(parameters[n], settings.step)
              = {v \in 0..settings.standard :
                   /\ v % settings.step = 0
                   /\ parameters[n].bmax <= v /\ v <= parameters[n].tmax}

(* An unresolved condition whose bracket has been narrowed from both sides.   *)
C14_Witness ==
  \E n \in Titrated :
    /\ IpUndetermined(n)
    /\ 0 < parameters[n].bmax
    /\ parameters[n].tmax < settings.standard
    /\ Cardinality(GetRewardValue(parameters[n], settings.step)) = 3

(* C15: the stimulus of a filler trial is built from a condition of the       *)
(* opposite kind to the titration condition just run (a probability condition *)
(* after a temporal-delay trial, a temporal-delay condition after a           *)
(* probability trial), never from the filler condition d0.                    *)
StimulusConditions(kind) ==
  {n \in Titrated :
     /\ parameters[n].type = kind
     /\ variables.stimulus = GetStimulousString(parameters, variables.reword, n)}

C15_FillerOppositeKind ==
  pc = "distractor"
    => /\ parameters[CurrentTrialName].type = "temporal_delay"
            => StimulusConditions("probability_delay") # {}
       /\ parameters[CurrentTrialName].type = "probability_delay"
            => StimulusConditions("temporal_delay") # {}
       /\ StimulusConditions(parameters[CurrentTrialName].type) = {}
       /\ variables.stimulus # GetStimulousString(parameters, variables.reword, "d0")

(* A filler trial is on screen after a temporal-delay titration trial.        *)
C15_Witness ==
  /\ pc = "distractor"
  /\ parameters[CurrentTrialName].type = "temporal_delay"
  /\ variables.stimulus[1] = "probabilityDelay"

(* C16: a condition's bracket and ip change only in the finish of a titration *)
(* trial of that same condition; the start and the finish of a titration      *)
(* trial of condition c change nothing of any other condition; the payoff     *)
(* trial and the summary step change no condition's state.                    *)
C16_Frame ==
  [][/\ \A n \in Titrated :
          Bracket(n)' # Bracket(n)
            => (pc = "delaied_discounting" /\ n = CurrentTrialName)
     /\ (\/ (pc = "sequence" /\ pc' = "delaied_discounting")
         \/ pc = "delaied_discounting")
          => \A n \in ParameterNames \ {CurrentTrialName} :
               parameters'[n] = parameters[n]
     /\ (pc' \in FinalPhases) => parameters' = parameters
    ]_vars

(* A titration trial of one condition has resolved it while the other         *)
(* condition, already tried, is left as it was.                               *)
C16_Witness ==
  /\ pc = "after_trial"
  /\ parameters[CurrentTrialName].ip # Undefined
  /\ \E n \in Titrated \ {CurrentTrialName} :
       /\ parameters[n].ip = Undefined
       /\ parameters[n].count > 0
       /\ Width(n) = settings.standard

(* C17: the reward consumed at the finish of a titration trial is the one     *)
(* sampled and displayed at the start of that trial for that condition: while *)
(* the trial is on screen the shared reword is a draw from the condition's    *)
(* range and the shared stimulus shows it, and the finish updates the         *)
(* condition with the displayed reward and logs it.                           *)
C17_OnScreen ==
  pc = "delaied_discounting"
    => /\ variables.reword \in GetRewardValue(parameters[CurrentTrialName], settings.step)
       /\ variables.stimulus
            = GetStimulousString(parameters, variables.reword, CurrentTrialName)

C17_RewardConsumedIsDisplayed ==
  /\ []C17_OnScreen
  /\ [][pc = "delaied_discounting"
          => /\ parameters'[CurrentTrialName]
                  = UpdateParameters(ResponseLabel(response'), variables.stimulus[2],
                                     parameters[CurrentTrialName],
                                     settings.standard, settings.threshold)
             /\ \E result \in data' :
                  /\ result.name = "delaied_discounting"
                  /\ result.tiral_name = CurrentTrialName
                  /\ result.choices = variables.stimulus
                  /\ result.reword = variables.stimulus[2]
       ]_vars

(* A titration trial has finished after a filler trial and has moved the      *)
(* bracket to the reward it displayed.                                        *)
C17_Witness ==
  /\ pc = "after_trial"
  /\ parameters["d0"].count > 0
  /\ response = 1
  /\ variables.reword = variables.stimulus[2]
  /\ variables.reword > 0
  /\ parameters[CurrentTrialName].bmin = variables.reword

(* C18: totalTrialsRun (variables.count) is the sum of the trial counts of    *)
(* the non-filler conditions; a filler trial increments only d0's count; the  *)
(* total never decreases, and once it has reached distractorStart the         *)
(* threshold test of the filler stays satisfied.                              *)
RECURSIVE SumCount(_)
SumCount(S) ==
  IF S = {} THEN 0
  ELSE LET n == CHOOSE m \in S : TRUE
       IN parameters[n].count + SumCount(S \ {n})

C18_TotalIsSum ==
  /\ [](variables.count = SumCount(Titrated))
  /\ [][/\ variables'.count >= variables.count
        /\ DistractorCondition => DistractorCondition'
        /\ (pc = "after_trial" /\ pc' = "distractor")
             => /\ parameters'["d0"].count = parameters["d0"].count + 1
                /\ \A n \in Titrated : parameters'[n] = parameters[n]
                /\ variables'.count = variables.count
        /\ parameters'["d0"].count # parameters["d0"].count
             => (pc = "after_trial" /\ pc' = "distractor")
       ]_vars

(* Filler trials have run and the total is above the threshold.               *)
C18_Witness ==
  /\ parameters["d0"].count >= 1
  /\ variables.count > settings.distractorStart
  /\ variables.count = SumCount(Titrated)
  /\ \A n \in Titrated : parameters[n].count > 0

(* C19: a set ip lies in its condition's bracket, bmax <= ip <= tmax, of      *)
(* width at most the threshold; it is a multiple of step in [0, standard];    *)
(* and once set it never changes.                                             *)
C19_IpInBracket ==
  /\ [](\A n \in Titrated :
          parameters[n].ip # Undefined
            => /\ parameters[n].bmax <= parameters[n].ip
               /\ parameters[n].ip <= parameters[n].tmax
               /\ Width(n) <= settings.threshold
               /\ parameters[n].ip % settings.step = 0
               /\ 0 <= parameters[n].ip /\ parameters[n].ip <= settings.standard)
  /\ [][\A n \in Titrated :
          parameters[n].ip # Undefined => parameters'[n] = parameters[n]]_vars

(* A condition resolved strictly inside (0, standard) on a bracket of width   *)
(* one step, while the other condition has moved since.                       *)
C19_Witness ==
  \E n \in Titrated :
    /\ parameters[n].ip # Undefined
    /\ 0 < parameters[n].bmax
    /\ parameters[n].tmax < settings.standard
    /\ Width(n) = settings.step
    /\ \E m \in Titrated \ {n} : Width(m) < settings.standard

(* C20: the session always terminates. The sequence has maximumTrialCount     *)
(* entries per condition, the loop never goes past them, and whatever the     *)
(* subject answers the payoff trial and then the summary are reached.         *)
C20_Terminates ==
  /\ [](/\ Len(trialSequence) = settings.maximumTrialCount * Cardinality(Titrated)
        /\ index <= Len(trialSequence) + 1)
  /\ <>(\E result \in data : result.name = "payoff")
  /\ <>(pc = "done" /\ summary # NoSummary)

(* The session has ended with a condition left unresolved after all of its    *)
(* entries.                                                                   *)
C20_Witness ==
  /\ pc = "done"
  /\ summary # NoSummary
  /\ \E n \in Titrated :
       /\ parameters[n].ip = Undefined
       /\ parameters[n].count = settings.maximumTrialCount
====
